---- MODULE Spec2Model ----
(***************************************************************************)
(* A model of package zfs (pkg/zfs/zfs.go, pkg/zfs/init.go): a facade that *)
(* runs the zfs and zpool command-line tools and parses their line output. *)
(*                                                                         *)
(* Strings are sequences of one-character strings, so that prefix tests,   *)
(* splitting at "@", whitespace tokenising and decimal conversion are      *)
(* computed character by character as the Go code computes them.           *)
(*                                                                         *)
(* Four specifications share the module:                                  *)
(*   Spec       the pool operations of zfs.go against an external pool     *)
(*   SpecParse  the bulk property-stream parse of ListFilesystems /        *)
(*              ListSnapshots on bounded synthetic streams                 *)
(*   SpecInit   the package initialisation of init.go with its subprocess  *)
(*              and the two log-draining goroutines                        *)
(*   SpecRace   two callers running CreateFilesystem or CreateSnapshot at  *)
(*              the same time, one subprocess at a time each               *)
(***************************************************************************)
EXTENDS Integers, Sequences, FiniteSets, TLC

VARIABLES
    pools,      \* external system: names of the pools that exist
    datasets,   \* external system: dataset name -> [type, guid, createtxg, origin]
    txg,        \* external system: the transaction group the next creation gets
    z,          \* the caller's pool handle (Zpool), z.Name = <<>> when none
    ret,        \* what the last operation returned, with the subprocesses it ran
    stream,     \* SpecParse: the lines handed to the bulk parse
    parsed,     \* SpecParse: the result of the bulk parse
    pc,         \* SpecInit: position of init()
    check,      \* SpecInit: which tool check init() is in ("zfs", "zpool")
    present,    \* SpecInit: tool -> os.ReadFile(path) succeeds
    child,      \* SpecInit: tool -> state of the subprocess of that check
    status,     \* SpecInit: tool -> exit status of the subprocess (0 none yet/ok)
    wopen,      \* SpecInit: stream -> the subprocess still holds the write end
    pipe,       \* SpecInit: stream -> lines written and not yet read
    written,    \* SpecInit: stream -> number of lines the subprocess wrote
    logged,     \* SpecInit: stream -> number of lines log.Printf received
    reader,     \* SpecInit: stream -> state of the logPipe goroutine
    signalled,  \* SpecInit: tool -> streams whose done was received in that check
    diag,       \* SpecInit: number of diagnostics logged by init() itself
    opsRun,     \* SpecInit: an exported operation has run after init()
    blockedOn,  \* SpecInit: tool -> stream whose full pipe its subprocess waits on
    callers     \* SpecRace: caller -> its request, position and returned values

poolVars  == <<pools, datasets, txg, z, ret>>
parseVars == <<stream, parsed>>
initVars  == <<pc, check, present, child, status, wopen, pipe, written, logged,
               reader, signalled, diag, opsRun, blockedOn>>
raceVars  == <<callers>>
vars      == <<poolVars, parseVars, initVars, raceVars>>

-----------------------------------------------------------------------------
(* Bounds of the model *)

\* the external system creates at most this many datasets after Init
MaxCreates == 3
\* longest synthetic stream of SpecParse
MaxLines == 3
\* most lines the subprocess of a startup check writes to one stream
MaxWrites == 2
\* lines an OS pipe holds before a write blocks
PipeCap == 1

-----------------------------------------------------------------------------
(* Strings *)

TAB   == "\t"
SPACE == " "
DASH  == <<"-">>
EMPTY == <<>>

IsSpace(c) == c \in {TAB, SPACE}

\* strings.HasPrefix(s, prefix)
HasPrefix(s, prefix) ==
    /\ Len(s) >= Len(prefix)
    /\ SubSeq(s, 1, Len(prefix)) = prefix

\* index of the first occurrence of character c in s, Len(s)+1 when absent
RECURSIVE IndexFrom(_, _, _)
IndexFrom(s, c, i) ==
    IF i > Len(s) THEN Len(s) + 1
    ELSE IF s[i] = c THEN i
    ELSE IndexFrom(s, c, i + 1)

Index(s, c) == IndexFrom(s, c, 1)

\* index of the last occurrence of character c in s, 0 when absent
RECURSIVE LastIndexFrom(_, _, _)
LastIndexFrom(s, c, i) ==
    IF i = 0 THEN 0
    ELSE IF s[i] = c THEN i
    ELSE LastIndexFrom(s, c, i - 1)

LastIndex(s, c) == LastIndexFrom(s, c, Len(s))

\* strings.Split(s, "@")[0]: the part of s before the first "@"
SplitAt(s) == SubSeq(s, 1, Index(s, "@") - 1)

\* the whitespace-separated tokens of a line, as the %s verbs of
\* fmt.Sscanf(line, "%s\t%s\t%s", ...) read them
RECURSIVE FieldsFrom(_, _, _, _)
FieldsFrom(line, i, cur, acc) ==
    IF i > Len(line)
    THEN IF cur = <<>> THEN acc ELSE Append(acc, cur)
    ELSE IF IsSpace(line[i])
         THEN FieldsFrom(line, i + 1, <<>>,
                         IF cur = <<>> THEN acc ELSE Append(acc, cur))
         ELSE FieldsFrom(line, i + 1, Append(cur, line[i]), acc)

Fields(line) == FieldsFrom(line, 1, <<>>, <<>>)

\* the n-th variable of a Sscanf call: the n-th token, "" when the line is short
Scanned(line, n) ==
    LET f == Fields(line) IN IF n <= Len(f) THEN f[n] ELSE EMPTY

Digits == <<"0", "1", "2", "3", "4", "5", "6", "7", "8", "9">>

DigitVal(c) == (CHOOSE i \in 1..10 : Digits[i] = c) - 1

IsDigit(c) == \E i \in 1..10 : Digits[i] = c

\* the decimal text of a natural number, as the tool prints guid and createtxg
RECURSIVE Itoa(_)
Itoa(n) ==
    IF n < 10 THEN <<Digits[n + 1]>>
    ELSE Append(Itoa(n \div 10), Digits[(n % 10) + 1])

RECURSIVE DecimalValue(_, _, _)
DecimalValue(s, i, acc) ==
    IF i > Len(s) THEN acc
    ELSE DecimalValue(s, i + 1, acc * 10 + DigitVal(s[i]))

\* strconv.ParseInt(value, 10, 64) on unsigned text: [ok, val]
ParseInt(value) ==
    IF value # <<>> /\ \A i \in 1..Len(value) : IsDigit(value[i])
    THEN [ok |-> TRUE, val |-> DecimalValue(value, 1, 0)]
    ELSE [ok |-> FALSE, val |-> 0]

-----------------------------------------------------------------------------
(* Names used by the callers and the external system.  They are written   *)
(* over the characters the tests' names use and hold no whitespace: "tk"   *)
(* stands for pool tank, "tk2" for a pool whose name extends it, "bg" for  *)
(* a pool that does not exist.                                             *)

TANK  == <<"t", "k">>
TANK2 == <<"t", "k", "2">>
BOGUS == <<"b", "g">>

F    == TANK \o <<"/", "f">>
F2   == TANK \o <<"/", "f", "2">>
FC   == TANK \o <<"/", "f", "/", "c">>
T2F  == TANK2 \o <<"/", "f">>
BGF  == BOGUS \o <<"/", "f">>

FS   == F \o <<"@", "s">>
FR   == F \o <<"@", "r">>
F2S  == F2 \o <<"@", "s">>
FCS  == FC \o <<"@", "s">>
T2FS == T2F \o <<"@", "s">>

PoolNames    == {TANK, TANK2, BOGUS}
ReqFsNames   == {EMPTY, TANK, F, F2, FC, T2F, BGF}
ReqOrigins   == {EMPTY, DASH, FS, F2S}
ReqSnapNames == {EMPTY, F, FS, FR, F2S, FCS, T2FS, BGF \o <<"@", "s">>}
AllNames     == ReqFsNames \cup ReqSnapNames \cup PoolNames

\* the property names of the queries
P_name      == <<"n", "a", "m", "e">>
P_guid      == <<"g", "u", "i", "d">>
P_createtxg == <<"c", "r", "e", "a", "t", "e", "t", "x", "g">>
P_origin    == <<"o", "r", "i", "g", "i", "n">>
P_used      == <<"u", "s", "e", "d">>

-----------------------------------------------------------------------------
(* The external system: what the zfs and zpool subprocesses do.  A         *)
(* subprocess may also fail for a reason of its own (fault = TRUE).        *)

\* the pool a dataset name lies in: the text before the first "/" or "@"
PoolOf(name) ==
    LET i == Index(name, "/")
        j == Index(name, "@")
    IN  SubSeq(name, 1, (IF i < j THEN i ELSE j) - 1)

\* the parent filesystem of a filesystem name, <<>> for a pool's root
Parent(name) == SubSeq(name, 1, LastIndex(name, "/") - 1)

IsFilesystem(ds, name) == name \in DOMAIN ds /\ ds[name].type = "filesystem"
IsSnapshot(ds, name)   == name \in DOMAIN ds /\ ds[name].type = "snapshot"

\* the guid the external system gives the dataset created in group t
GuidOf(t) == 40 + t

NewDataset(type, origin, t) ==
    [type |-> type, guid |-> GuidOf(t), createtxg |-> t, origin |-> origin]

Extend(ds, name, rec) ==
    [n \in DOMAIN ds \cup {name} |-> IF n = name THEN rec ELSE ds[n]]

\* zfs create <name>
ZfsCreateOk(ps, ds, name, fault) ==
    /\ ~fault
    /\ Index(name, "@") > Len(name)
    /\ PoolOf(name) \in ps
    /\ name \notin DOMAIN ds
    /\ IsFilesystem(ds, Parent(name))

\* zfs clone <origin> <name>
ZfsCloneOk(ps, ds, origin, name, fault) ==
    /\ ZfsCreateOk(ps, ds, name, fault)
    /\ IsSnapshot(ds, origin)
    /\ PoolOf(origin) = PoolOf(name)

\* zfs snapshot <name>
ZfsSnapshotOk(ds, name, fault) ==
    /\ ~fault
    /\ Index(name, "@") < Len(name)
    /\ name \notin DOMAIN ds
    /\ IsFilesystem(ds, SplitAt(name))

\* zfs get -Ho value name <name>
ZfsProbeOk(ds, name, fault) == ~fault /\ name \in DOMAIN ds

\* zpool get -H -o value name <zpool>
ZpoolProbeOk(ps, zpool, fault) == ~fault /\ zpool \in ps

Line2(property, value) == property \o <<TAB>> \o value
Line3(name, property, value) == name \o <<TAB>> \o property \o <<TAB>> \o value

\* zfs get -t <type> -Ho property,value name,guid,createtxg[,origin] <name>
ZfsGetOneOk(ds, name, fault) == ~fault /\ name \in DOMAIN ds

ZfsGetOneOut(ds, type, name) ==
    IF ds[name].type # type THEN <<>>
    ELSE <<Line2(P_name, name),
           Line2(P_guid, Itoa(ds[name].guid)),
           Line2(P_createtxg, Itoa(ds[name].createtxg))>>
         \o (IF type = "filesystem"
             THEN <<Line2(P_origin, ds[name].origin)>> ELSE <<>>)

\* the datasets of one type in a pool, as the recursive query visits them
InPool(ds, type, pool) ==
    {n \in DOMAIN ds : ds[n].type = type /\ PoolOf(n) = pool}

\* zfs get -t <type> -Hro name,property,value <props> <pool>
ZfsGetAllOk(ps, pool, fault) == ~fault /\ pool \in ps

RECURSIVE ZfsGetAllLines(_, _, _)
ZfsGetAllLines(ds, type, names) ==
    IF names = {} THEN <<>>
    ELSE LET n == CHOOSE m \in names : TRUE
         IN  (IF type = "filesystem"
              THEN <<Line3(n, P_origin, ds[n].origin)>> ELSE <<>>)
             \o <<Line3(n, P_guid, Itoa(ds[n].guid)),
                  Line3(n, P_createtxg, Itoa(ds[n].createtxg))>>
             \o ZfsGetAllLines(ds, type, names \ {n})

ZfsGetAllOut(ds, type, pool) == ZfsGetAllLines(ds, type, InPool(ds, type, pool))

-----------------------------------------------------------------------------
(* The entity model and the operations of zfs.go *)

ZeroFilesystem == [Name |-> EMPTY, GUID |-> EMPTY, Origin |-> EMPTY, CreateTxg |-> 0]
ZeroSnapshot   == [Name |-> EMPTY, GUID |-> EMPTY, CreateTxg |-> 0]
ZeroZpool      == [Name |-> EMPTY]
NoList         == [n \in {} |-> ZeroFilesystem]

\* one subprocess the operation ran, and whether it exited with success
Call(cmd, arg, ok) == [cmd |-> cmd, arg |-> arg, ok |-> ok]

\* New: the handle and the error, with the probe zpoolExists runs
zpoolExists(ps, zpool, fault) == ZpoolProbeOk(ps, zpool, fault)

NewAlways(ps, zpool, fault) ==
    [err |-> "nil", z |-> [Name |-> zpool],
     calls |-> <<Call("zpool get", zpool, zpoolExists(ps, zpool, fault))>>]
New(ps, zpool, fault) ==
    LET ok == zpoolExists(ps, zpool, fault)
        calls == <<Call("zpool get", zpool, ok)>>
    IN  IF ~ok
        THEN [err |-> "doesn't exist", z |-> ZeroZpool, calls |-> calls]
        ELSE [err |-> "nil", z |-> [Name |-> zpool], calls |-> calls]

\* the switch of GetFilesystem on one property/value line: [ok, ds]
GetFilesystemField(ds, property, value) ==
    IF property = P_name THEN [ok |-> TRUE, ds |-> [ds EXCEPT !.Name = value]]
    ELSE IF property = P_guid THEN [ok |-> TRUE, ds |-> [ds EXCEPT !.GUID = value]]
    ELSE IF property = P_createtxg
    THEN LET p == ParseInt(value)
         IN  IF p.ok THEN [ok |-> TRUE, ds |-> [ds EXCEPT !.CreateTxg = p.val]]
             ELSE [ok |-> FALSE, ds |-> ds]
    ELSE IF property = P_origin THEN [ok |-> TRUE, ds |-> [ds EXCEPT !.Origin = value]]
    ELSE [ok |-> TRUE, ds |-> ds]

\* the switch of GetSnapshot on one property/value line: [ok, ds]
GetSnapshotField(ds, property, value) ==
    IF property = P_name THEN [ok |-> TRUE, ds |-> [ds EXCEPT !.Name = value]]
    ELSE IF property = P_guid THEN [ok |-> TRUE, ds |-> [ds EXCEPT !.GUID = value]]
    ELSE IF property = P_createtxg
    THEN LET p == ParseInt(value)
         IN  IF p.ok THEN [ok |-> TRUE, ds |-> [ds EXCEPT !.CreateTxg = p.val]]
             ELSE [ok |-> FALSE, ds |-> ds]
    ELSE [ok |-> TRUE, ds |-> ds]

\* the scan loops of GetFilesystem and GetSnapshot over the output lines
RECURSIVE ScanFilesystem(_, _, _)
ScanFilesystem(lines, i, ds) ==
    IF i > Len(lines) THEN [err |-> "nil", ds |-> ds]
    ELSE LET r == GetFilesystemField(ds, Scanned(lines[i], 1), Scanned(lines[i], 2))
         IN  IF ~r.ok THEN [err |-> "unable to parse", ds |-> r.ds]
             ELSE ScanFilesystem(lines, i + 1, r.ds)

RECURSIVE ScanSnapshot(_, _, _)
ScanSnapshot(lines, i, ds) ==
    IF i > Len(lines) THEN [err |-> "nil", ds |-> ds]
    ELSE LET r == GetSnapshotField(ds, Scanned(lines[i], 1), Scanned(lines[i], 2))
         IN  IF ~r.ok THEN [err |-> "unable to parse", ds |-> r.ds]
             ELSE ScanSnapshot(lines, i + 1, r.ds)

\* GetFilesystem: [err, ds, calls]
GetFilesystem(zn, sys, name, fault) ==
    IF ~HasPrefix(name, zn)
    THEN [err |-> "bad request", ds |-> ZeroFilesystem, calls |-> <<>>]
    ELSE LET ok == ZfsGetOneOk(sys, name, fault)
             calls == <<Call("get", name, ok)>>
         IN  IF ~ok
             THEN [err |-> "not found", ds |-> ZeroFilesystem, calls |-> calls]
             ELSE LET r == ScanFilesystem(ZfsGetOneOut(sys, "filesystem", name),
                                          1, ZeroFilesystem)
                  IN  [err |-> r.err, ds |-> r.ds, calls |-> calls]

\* GetSnapshot: [err, ds, calls]
GetSnapshot(zn, sys, name, fault) ==
    IF ~HasPrefix(name, zn)
    THEN [err |-> "bad request", ds |-> ZeroSnapshot, calls |-> <<>>]
    ELSE LET ok == ZfsGetOneOk(sys, name, fault)
             calls == <<Call("get", name, ok)>>
         IN  IF ~ok
             THEN [err |-> "not found", ds |-> ZeroSnapshot, calls |-> calls]
             ELSE LET r == ScanSnapshot(ZfsGetOneOut(sys, "snapshot", name),
                                        1, ZeroSnapshot)
                  IN  [err |-> r.err, ds |-> r.ds, calls |-> calls]

\* the switch of ListFilesystems on one name/property/value line: [ok, ds]
ListFilesystemsField(ds, property, value) ==
    IF property = P_origin THEN [ok |-> TRUE, ds |-> [ds EXCEPT !.Origin = value]]
    ELSE IF property = P_guid THEN [ok |-> TRUE, ds |-> [ds EXCEPT !.GUID = value]]
    ELSE IF property = P_createtxg
    THEN LET p == ParseInt(value)
         IN  IF p.ok THEN [ok |-> TRUE, ds |-> [ds EXCEPT !.CreateTxg = p.val]]
             ELSE [ok |-> FALSE, ds |-> ds]
    ELSE [ok |-> TRUE, ds |-> ds]

\* the switch of ListSnapshots on one name/property/value line: [ok, ds]
ListSnapshotsField(ds, property, value) ==
    IF property = P_guid THEN [ok |-> TRUE, ds |-> [ds EXCEPT !.GUID = value]]
    ELSE IF property = P_createtxg
    THEN LET p == ParseInt(value)
         IN  IF p.ok THEN [ok |-> TRUE, ds |-> [ds EXCEPT !.CreateTxg = p.val]]
             ELSE [ok |-> FALSE, ds |-> ds]
    ELSE [ok |-> TRUE, ds |-> ds]

\* l[name], made first when the map has no such key
EnsureFresh(l, name, zero) == Extend(l, name, [zero EXCEPT !.Name = name])
Ensure(l, name, zero) ==
    IF name \in DOMAIN l THEN l ELSE Extend(l, name, [zero EXCEPT !.Name = name])

\* the scan loop of ListFilesystems: [err, l]
RECURSIVE ParseFilesystems(_, _, _)
ParseFilesystems(lines, i, l) ==
    IF i > Len(lines) THEN [err |-> "nil", l |-> l]
    ELSE LET name == Scanned(lines[i], 1)
             l1 == Ensure(l, name, ZeroFilesystem)
             r  == ListFilesystemsField(l1[name], Scanned(lines[i], 2),
                                        Scanned(lines[i], 3))
             l2 == [l1 EXCEPT ![name] = r.ds]
         IN  IF ~r.ok THEN [err |-> "unable to convert", l |-> l2]
             ELSE ParseFilesystems(lines, i + 1, l2)

\* the scan loop of ListSnapshots: [err, l]
RECURSIVE ParseSnapshots(_, _, _)
ParseSnapshots(lines, i, l) ==
    IF i > Len(lines) THEN [err |-> "nil", l |-> l]
    ELSE LET name == Scanned(lines[i], 1)
             l1 == Ensure(l, name, ZeroSnapshot)
             r  == ListSnapshotsField(l1[name], Scanned(lines[i], 2),
                                      Scanned(lines[i], 3))
             l2 == [l1 EXCEPT ![name] = r.ds]
         IN  IF ~r.ok THEN [err |-> "unable to convert", l |-> l2]
             ELSE ParseSnapshots(lines, i + 1, l2)

\* ListFilesystems: [err, l, calls]
ListFilesystems(zn, ps, sys, fault) ==
    LET ok == ZfsGetAllOk(ps, zn, fault)
        calls == <<Call("get -r", zn, ok)>>
    IN  IF ~ok THEN [err |-> "unable to run", l |-> NoList, calls |-> calls]
        ELSE LET r == ParseFilesystems(ZfsGetAllOut(sys, "filesystem", zn), 1, NoList)
             IN  [err |-> r.err, l |-> r.l, calls |-> calls]

\* ListSnapshots: [err, l, calls]
ListSnapshots(zn, ps, sys, fault) ==
    LET ok == ZfsGetAllOk(ps, zn, fault)
        calls == <<Call("get -r", zn, ok)>>
    IN  IF ~ok THEN [err |-> "unable to run", l |-> NoList, calls |-> calls]
        ELSE LET r == ParseSnapshots(ZfsGetAllOut(sys, "snapshot", zn), 1, NoList)
             IN  [err |-> r.err, l |-> r.l, calls |-> calls]

\* the short circuit of CreateFilesystem: the request may go to the tool
CreateFilesystemValid(zn, fs) ==
    ~(Len(fs.Name) = 0 \/ fs.CreateTxg # 0 \/ ~HasPrefix(fs.Name, zn))

\* the command CreateFilesystem builds: a plain create or a clone
IsPlainCreate(fs) == Len(fs.Origin) = 0 \/ fs.Origin = DASH

\* the end of CreateFilesystem, after the create or clone subprocess succeeded:
\* the new filesystem is fetched and that record returned
CreateFilesystemConfirmEcho(zn, sys1, t1, fs, call, gfault) ==
    LET n == GetFilesystem(zn, sys1, fs.Name, gfault)
    IN  [err |-> IF n.err # "nil" THEN "after creation" ELSE "nil", fs |-> fs,
         calls |-> <<call>> \o n.calls, sys |-> sys1, txg |-> t1]
CreateFilesystemConfirmConflated(zn, sys1, t1, fs, call, gfault) ==
    LET n == GetFilesystem(zn, sys1, fs.Name, gfault)
    IN  IF n.err # "nil"
        THEN [err |-> "unable to create", fs |-> fs, calls |-> <<call>> \o n.calls,
              sys |-> sys1, txg |-> t1]
        ELSE [err |-> "nil", fs |-> n.ds, calls |-> <<call>> \o n.calls,
              sys |-> sys1, txg |-> t1]
CreateFilesystemConfirm(zn, sys1, t1, fs, call, gfault) ==
    LET n == GetFilesystem(zn, sys1, fs.Name, gfault)
    IN  IF n.err # "nil"
        THEN [err |-> "after creation", fs |-> fs, calls |-> <<call>> \o n.calls,
              sys |-> sys1, txg |-> t1]
        ELSE [err |-> "nil", fs |-> n.ds, calls |-> <<call>> \o n.calls,
              sys |-> sys1, txg |-> t1]

\* CreateFilesystem: [err, fs, calls, sys, txg]
CreateFilesystem(zn, ps, sys, t, fs, cfault, gfault) ==
    IF ~CreateFilesystemValid(zn, fs)
    THEN [err |-> "cannot be created", fs |-> fs, calls |-> <<>>,
          sys |-> sys, txg |-> t]
    ELSE LET plain == IsPlainCreate(fs)
             ok == IF plain THEN ZfsCreateOk(ps, sys, fs.Name, cfault)
                   ELSE ZfsCloneOk(ps, sys, fs.Origin, fs.Name, cfault)
             call == Call(IF plain THEN "create" ELSE "clone", fs.Name, ok)
         IN  IF ~ok
             THEN [err |-> "unable to create", fs |-> fs, calls |-> <<call>>,
                   sys |-> sys, txg |-> t]
             ELSE CreateFilesystemConfirm(
                      zn,
                      Extend(sys, fs.Name,
                             NewDataset("filesystem",
                                        IF plain THEN DASH ELSE fs.Origin, t)),
                      t + 1, fs, call, gfault)

\* the short circuit of CreateSnapshot
CreateSnapshotValid(zn, snapshotName) ==
    ~(Len(snapshotName) = 0 \/ ~HasPrefix(snapshotName, zn))

\* CreateSnapshot: [err, snap, calls, sys, txg]
CreateSnapshot(zn, sys, t, snapshotName, cfault, gfault) ==
    IF ~CreateSnapshotValid(zn, snapshotName)
    THEN [err |-> "cannot be created", snap |-> ZeroSnapshot, calls |-> <<>>,
          sys |-> sys, txg |-> t]
    ELSE LET ok == ZfsSnapshotOk(sys, snapshotName, cfault)
             call == Call("snapshot", snapshotName, ok)
         IN  IF ~ok
             THEN [err |-> "unable to create", snap |-> ZeroSnapshot,
                   calls |-> <<call>>, sys |-> sys, txg |-> t]
             ELSE LET sys1 == Extend(sys, snapshotName, NewDataset("snapshot", DASH, t))
                      n == GetSnapshot(zn, sys1, snapshotName, gfault)
                  IN  [err |-> IF n.err # "nil" THEN "after creation" ELSE "nil",
                       snap |-> n.ds, calls |-> <<call>> \o n.calls,
                       sys |-> sys1, txg |-> t + 1]

\* the sequences a range over a Go map can append the records of S in
OrdersOf(S) ==
    {q \in [1..Cardinality(S) -> S] : \A x \in S : \E i \in DOMAIN q : q[i] = x}

\* the test of ClonesOf on one filesystem of the listing
IsCloneOfAny(fs, s) == Len(fs.Origin) # 0
IsCloneOf(fs, s) == fs.Origin = s.Name

\* ClonesOf without the order: [err, clones (a set), calls]
ClonesOf(zn, ps, sys, s, fault) ==
    LET r == ListFilesystems(zn, ps, sys, fault)
    IN  IF r.err # "nil" THEN [err |-> r.err, clones |-> {}, calls |-> r.calls]
        ELSE [err |-> "nil",
              clones |-> {r.l[n] : n \in {m \in DOMAIN r.l : IsCloneOf(r.l[m], s)}},
              calls |-> r.calls]

\* the test of SnapshotsOf on one snapshot of the listing
IsSnapshotOfPrefix(ds, fs) == HasPrefix(ds.Name, fs.Name)
IsSnapshotOf(ds, fs) == SplitAt(ds.Name) = fs.Name

\* SnapshotsOf without the order: [err, snapshots (a set), calls]
SnapshotsOf(zn, ps, sys, fs, fault) ==
    LET r == ListSnapshots(zn, ps, sys, fault)
    IN  IF r.err # "nil" THEN [err |-> r.err, snapshots |-> {}, calls |-> r.calls]
        ELSE [err |-> "nil",
              snapshots |-> {r.l[n] : n \in {m \in DOMAIN r.l : IsSnapshotOf(r.l[m], fs)}},
              calls |-> r.calls]

\* the short circuit of ExistsByName
ExistsByNameShortEmptyOnly(zn, name) == Len(name) = 0
ExistsByNameShort(zn, name) == Len(name) = 0 \/ ~HasPrefix(name, zn)

\* ExistsByName: [ok, calls]
ExistsByName(zn, sys, name, fault) ==
    IF ExistsByNameShort(zn, name)
    THEN [ok |-> FALSE, calls |-> <<>>]
    ELSE LET ok == ZfsProbeOk(sys, name, fault)
         IN  [ok |-> ok, calls |-> <<Call("get name", name, ok)>>]

-----------------------------------------------------------------------------
(* Spec: a caller running the operations one after another *)

\* createtxg of the pool roots and of the datasets present at the start
TxgRoot == 1
TxgF    == 4
TxgFS   == 8
TxgInit == 9

NoRet ==
    [op |-> "none", name |-> EMPTY, origin |-> EMPTY, ctxg |-> 0, err |-> "nil",
     fs |-> ZeroFilesystem, snap |-> ZeroSnapshot, seq |-> <<>>, l |-> NoList,
     ok |-> FALSE, calls |-> <<>>]

\* the root filesystem of a pool; pool tank2 was made a group after pool tank
Root(pool) ==
    NewDataset("filesystem", DASH, IF pool = TANK THEN TxgRoot ELSE TxgRoot + 1)

\* the pools with their roots, filesystem tank/f and its snapshot tank/f@s
InitDatasets(ps) ==
    [n \in ps \cup {F, FS} |->
        IF n = F THEN NewDataset("filesystem", DASH, TxgF)
        ELSE IF n = FS THEN NewDataset("snapshot", DASH, TxgFS)
        ELSE Root(n)]

IdleParse == stream = <<>> /\ parsed = NoRet
IdleInit ==
    /\ pc = "idle" /\ check = "zfs"
    /\ present = <<>> /\ child = <<>> /\ status = <<>>
    /\ wopen = <<>> /\ pipe = <<>> /\ written = <<>> /\ logged = <<>>
    /\ reader = <<>> /\ signalled = <<>> /\ diag = 0 /\ opsRun = FALSE
    /\ blockedOn = <<>>
IdlePool ==
    /\ pools = {} /\ datasets = <<>> /\ txg = 0 /\ z = ZeroZpool /\ ret = NoRet
IdleRace == callers = <<>>

Init ==
    /\ pools = {TANK, TANK2}
    /\ datasets = InitDatasets(pools)
    /\ txg = TxgInit
    /\ z = ZeroZpool
    /\ ret = NoRet
    /\ IdleParse
    /\ IdleInit
    /\ IdleRace

Stay == UNCHANGED <<parseVars, initVars, raceVars>>

CallNew ==
    /\ ret.op = "none"
    /\ \E zpool \in PoolNames, fault \in BOOLEAN :
        LET r == New(pools, zpool, fault)
        IN  /\ z' = r.z
            /\ ret' = [NoRet EXCEPT !.op = "New", !.name = zpool, !.err = r.err,
                                    !.calls = r.calls]
            /\ UNCHANGED <<pools, datasets, txg>>
            /\ Stay

\* the caller holds a handle and has taken the result of its last call
HasHandle == z # ZeroZpool /\ ret.op = "none"

\* the caller takes the result of the call it made
Return ==
    /\ ret.op # "none"
    /\ ret' = NoRet
    /\ UNCHANGED <<pools, datasets, txg, z>>
    /\ Stay

CallCreateFilesystem ==
    /\ HasHandle
    /\ \E name \in ReqFsNames, origin \in ReqOrigins, ctxg \in {0, 5},
          cfault \in BOOLEAN, gfault \in BOOLEAN :
        LET fs == [ZeroFilesystem EXCEPT !.Name = name, !.Origin = origin,
                                         !.CreateTxg = ctxg]
            r == CreateFilesystem(z.Name, pools, datasets, txg, fs, cfault, gfault)
        IN  /\ r.txg <= TxgInit + MaxCreates
            /\ datasets' = r.sys
            /\ txg' = r.txg
            /\ ret' = [NoRet EXCEPT !.op = "CreateFilesystem", !.name = name,
                                    !.origin = origin, !.ctxg = ctxg,
                                    !.err = r.err, !.fs = r.fs, !.calls = r.calls]
            /\ UNCHANGED <<pools, z>>
            /\ Stay

CallCreateSnapshot ==
    /\ HasHandle
    /\ \E name \in ReqSnapNames, cfault \in BOOLEAN, gfault \in BOOLEAN :
        LET r == CreateSnapshot(z.Name, datasets, txg, name, cfault, gfault)
        IN  /\ r.txg <= TxgInit + MaxCreates
            /\ datasets' = r.sys
            /\ txg' = r.txg
            /\ ret' = [NoRet EXCEPT !.op = "CreateSnapshot", !.name = name,
                                    !.err = r.err, !.snap = r.snap, !.calls = r.calls]
            /\ UNCHANGED <<pools, z>>
            /\ Stay

CallGetFilesystem ==
    /\ HasHandle
    /\ \E name \in ReqFsNames \cup {FS}, fault \in BOOLEAN :
        LET r == GetFilesystem(z.Name, datasets, name, fault)
        IN  /\ ret' = [NoRet EXCEPT !.op = "GetFilesystem", !.name = name,
                                    !.err = r.err, !.fs = r.ds, !.calls = r.calls]
            /\ UNCHANGED <<pools, datasets, txg, z>>
            /\ Stay

CallListFilesystems ==
    /\ HasHandle
    /\ \E fault \in BOOLEAN :
        LET r == ListFilesystems(z.Name, pools, datasets, fault)
        IN  /\ ret' = [NoRet EXCEPT !.op = "ListFilesystems", !.err = r.err,
                                    !.l = r.l, !.calls = r.calls]
            /\ UNCHANGED <<pools, datasets, txg, z>>
            /\ Stay

CallClonesOf ==
    /\ HasHandle
    /\ \E name \in {FS, F2S, FR}, fault \in BOOLEAN :
        LET r == ClonesOf(z.Name, pools, datasets, [ZeroSnapshot EXCEPT !.Name = name],
                          fault)
        IN  \E clones \in OrdersOf(r.clones) :
            /\ ret' = [NoRet EXCEPT !.op = "ClonesOf", !.name = name, !.err = r.err,
                                    !.seq = clones, !.calls = r.calls]
            /\ UNCHANGED <<pools, datasets, txg, z>>
            /\ Stay

CallSnapshotsOf ==
    /\ HasHandle
    /\ \E name \in {F, F2, FC, TANK}, fault \in BOOLEAN :
        LET r == SnapshotsOf(z.Name, pools, datasets,
                             [ZeroFilesystem EXCEPT !.Name = name], fault)
        IN  \E snapshots \in OrdersOf(r.snapshots) :
            /\ ret' = [NoRet EXCEPT !.op = "SnapshotsOf", !.name = name, !.err = r.err,
                                    !.seq = snapshots, !.calls = r.calls]
            /\ UNCHANGED <<pools, datasets, txg, z>>
            /\ Stay

CallExistsByName ==
    /\ HasHandle
    /\ \E name \in AllNames, fault \in BOOLEAN :
        LET r == ExistsByName(z.Name, datasets, name, fault)
        IN  /\ ret' = [NoRet EXCEPT !.op = "ExistsByName", !.name = name,
                                    !.ok = r.ok, !.calls = r.calls]
            /\ UNCHANGED <<pools, datasets, txg, z>>
            /\ Stay

Next ==
    \/ CallNew
    \/ CallCreateFilesystem
    \/ CallCreateSnapshot
    \/ CallGetFilesystem
    \/ CallListFilesystems
    \/ CallClonesOf
    \/ CallSnapshotsOf
    \/ CallExistsByName
    \/ Return

Spec == Init /\ [][Next]_vars

-----------------------------------------------------------------------------
(* Properties of the pool operations, checked under Spec *)

\* the pool a well-formed dataset name lies in is named before its first "/"
InNamespace(name, pool) == HasPrefix(name, pool \o <<"/">>)

\* C1: CreateFilesystem reaches the external tool only when the requested
\* name is non-empty, begins with the pool's name followed by "/" and the
\* requested creation sequence number is 0; every other request returns the
\* validation error with no subprocess invoked.
C1_RejectedBeforeAnySubprocess ==
    (ret.op = "CreateFilesystem"
     /\ ~(ret.name # EMPTY /\ InNamespace(ret.name, z.Name) /\ ret.ctxg = 0))
    => (ret.err = "cannot be created" /\ ret.calls = <<>>)

\* C2: a CreateFilesystem that returns no error returns the record parsed
\* from a get query issued after the create or clone subprocess succeeded:
\* its name is the requested one, its creation sequence number is positive
\* and its fields are the external system's; a GetFilesystem that follows on
\* the same name returns the same name and a positive sequence number.
C2_ReturnsRefetchedRecord ==
    (ret.op = "CreateFilesystem" /\ ret.err = "nil")
    => /\ Len(ret.calls) = 2
       /\ ret.calls[1].cmd \in {"create", "clone"} /\ ret.calls[1].ok
       /\ ret.calls[2] = Call("get", ret.name, TRUE)
       /\ ret.fs.Name = ret.name
       /\ ret.fs.CreateTxg > 0
       /\ ret.name \in DOMAIN datasets
       /\ ret.fs.CreateTxg = datasets[ret.name].createtxg
       /\ ret.fs.GUID = Itoa(datasets[ret.name].guid)
       /\ ret.fs.Origin = datasets[ret.name].origin
       /\ LET g == GetFilesystem(z.Name, datasets, ret.name, FALSE)
          IN  g.err = "nil" /\ g.ds.Name = ret.name /\ g.ds.CreateTxg > 0

C2_Witness ==
    /\ ret.op = "CreateFilesystem" /\ ret.err = "nil"
    /\ ret.origin = FS /\ ret.fs.Origin = FS /\ ret.fs.CreateTxg >= 10

\* the record the caller passed to the CreateFilesystem that ret is of
Requested ==
    [ZeroFilesystem EXCEPT !.Name = ret.name, !.Origin = ret.origin,
                           !.CreateTxg = ret.ctxg]

\* C3: past validation CreateFilesystem fails in two distinguishable ways: a
\* failed create or clone subprocess gives "unable to create" with no get
\* query issued; a successful one followed by a failed fetch gives "after
\* creation" while the dataset exists.  No subprocess is run twice, and an
\* error comes with the caller's own record, never a fetched one.
C3_TwoFailureOutcomes ==
    ret.op = "CreateFilesystem"
    => /\ ret.err = "unable to create"
            => (Len(ret.calls) = 1 /\ ret.calls[1].cmd \in {"create", "clone"}
                /\ ~ret.calls[1].ok)
       /\ ret.err = "after creation"
            => (Len(ret.calls) = 2 /\ ret.calls[1].cmd \in {"create", "clone"}
                /\ ret.calls[1].ok /\ ret.calls[2] = Call("get", ret.name, FALSE)
                /\ ret.name \in DOMAIN datasets)
       /\ (Len(ret.calls) >= 1 /\ ~ret.calls[1].ok) => ret.err = "unable to create"
       /\ (Len(ret.calls) = 2 /\ ~ret.calls[2].ok) => ret.err = "after creation"
       /\ Len(ret.calls) <= 2
       /\ ret.err # "nil" => ret.fs = Requested

C3_Witness ==
    /\ ret.op = "CreateFilesystem" /\ ret.err = "after creation"
    /\ ret.name \in DOMAIN datasets /\ Len(ret.calls) = 2

\* the filesystems the external system holds with snapshot name s as origin
ExternalClones(s) ==
    {n \in DOMAIN datasets : datasets[n].type = "filesystem" /\ datasets[n].origin = s}

\* the names of the records of a returned sequence
NamesOf(seq) == {seq[i].Name : i \in DOMAIN seq}

ExternalSnapshots(f) ==
    {n \in DOMAIN datasets :
        datasets[n].type = "snapshot" /\ HasPrefix(n, f \o <<"@">>)}

\* C5: for a filesystem F of the pool, SnapshotsOf(F) returns exactly the
\* snapshots named F.name "@" suffix, and none of a filesystem whose name
\* extends F.name (pool/f2) or lies below it (pool/f/child).
C5_SnapshotsOfExact ==
    (ret.op = "SnapshotsOf" /\ ret.err = "nil" /\ PoolOf(ret.name) = z.Name)
    => /\ NamesOf(ret.seq) = ExternalSnapshots(ret.name)
       /\ Len(ret.seq) = Cardinality(ExternalSnapshots(ret.name))
       /\ \A i \in DOMAIN ret.seq : SplitAt(ret.seq[i].Name) = ret.name

C5_Witness ==
    /\ ret.op = "SnapshotsOf" /\ ret.err = "nil" /\ ret.name = F /\ z.Name = TANK
    /\ NamesOf(ret.seq) = {FS, FR}
    /\ (F2S \in DOMAIN datasets \/ FCS \in DOMAIN datasets)

\* C6: ExistsByName returns false with no subprocess for the empty name and
\* for a name that does not begin with the pool's name; otherwise it runs one
\* probe and returns whether the probe succeeded.  It returns true for every
\* name ListFilesystems returns on the same state.
C6_ExistsByName ==
    /\ ret.op = "ExistsByName"
       => IF ret.name = EMPTY \/ ~HasPrefix(ret.name, z.Name)
          THEN ~ret.ok /\ ret.calls = <<>>
          ELSE /\ Len(ret.calls) = 1
               /\ ret.calls[1].cmd = "get name" /\ ret.calls[1].arg = ret.name
               /\ ret.ok = ret.calls[1].ok
               /\ ret.ok => ret.name \in DOMAIN datasets
    /\ (ret.op = "ListFilesystems" /\ ret.err = "nil")
       => \A n \in DOMAIN ret.l :
              /\ ret.l[n].Name = n
              /\ ExistsByName(z.Name, datasets, n, FALSE).ok

C6_Witness ==
    /\ ret.op = "ExistsByName" /\ ret.name = F2 /\ z.Name = TANK
    /\ ret.ok /\ Len(ret.calls) = 1

\* C7: New returns a handle named as asked, with no error, exactly when the
\* external system reports the pool as existing; it returns an error for
\* every name that is not a pool, so a handle always names an existing pool.
C7_NewValidates ==
    /\ ret.op = "New"
       => /\ Len(ret.calls) = 1
          /\ ret.calls[1] = Call("zpool get", ret.name, ret.err = "nil")
          /\ ret.err = "nil" => (z = [Name |-> ret.name] /\ ret.name \in pools)
          /\ ret.err # "nil" => z = ZeroZpool
          /\ ret.name \notin pools => ret.err # "nil"
    /\ z # ZeroZpool => z.Name \in pools

C7_Witness ==
    /\ ret.op = "New" /\ ret.name = BOGUS /\ ret.err # "nil" /\ z = ZeroZpool

-----------------------------------------------------------------------------
(* SpecParse: the bulk parse of ListFilesystems and ListSnapshots applied  *)
(* to synthetic streams.  A stream is a sequence of name/property/value    *)
(* triples; the action prints each as a tab-separated line, as the tool    *)
(* does, and runs the scan loop of the operation on the text.              *)

D1 == <<"d", "1">>
D2 == <<"d", "2">>

Triple(name, property, value, num) ==
    [name |-> name, property |-> property, value |-> value, num |-> num]

\* a createtxg line carries the decimal text of its number
TxgTriple(name, n) == Triple(name, P_createtxg, Itoa(n), n)

SynthTriples ==
    { Triple(D1, P_guid, <<"G", "1">>, 0),
      TxgTriple(D1, 42),
      Triple(D2, P_guid, <<"G", "2">>, 0),
      Triple(D2, P_origin, D1 \o <<"@", "s">>, 0),
      Triple(D1, P_used, <<"7">>, 0),
      TxgTriple(D2, 7),
      Triple(D1, P_guid, <<"G", "3">>, 0),
      Triple(D2, P_createtxg, <<"x">>, -1) }

Streams == UNION {[1..n -> SynthTriples] : n \in 0..MaxLines}

\* the text of a stream
TextOf(strm) == [i \in DOMAIN strm |->
                    Line3(strm[i].name, strm[i].property, strm[i].value)]

\* every createtxg value of the stream is a decimal number
WellFormed(strm) == \A i \in DOMAIN strm : strm[i].num >= 0

InitParse ==
    /\ stream \in Streams
    /\ parsed = NoRet
    /\ IdlePool
    /\ IdleInit
    /\ IdleRace

ParseListFilesystems ==
    /\ parsed.op = "none"
    /\ LET r == ParseFilesystems(TextOf(stream), 1, NoList)
       IN  parsed' = [NoRet EXCEPT !.op = "ListFilesystems", !.err = r.err, !.l = r.l]
    /\ UNCHANGED <<stream, poolVars, initVars, raceVars>>

ParseListSnapshots ==
    /\ parsed.op = "none"
    /\ LET r == ParseSnapshots(TextOf(stream), 1, NoList)
       IN  parsed' = [NoRet EXCEPT !.op = "ListSnapshots", !.err = r.err, !.l = r.l]
    /\ UNCHANGED <<stream, poolVars, initVars, raceVars>>

NextParse == ParseListFilesystems \/ ParseListSnapshots

SpecParse == InitParse /\ [][NextParse]_vars

\* the last line of the stream that sets property prop of dataset n, 0 if none
LastLine(strm, n, prop) ==
    LET I == {i \in DOMAIN strm : strm[i].name = n /\ strm[i].property = prop}
    IN  IF I = {} THEN 0 ELSE CHOOSE i \in I : \A j \in I : j <= i

ExpectedText(strm, n, prop) ==
    IF LastLine(strm, n, prop) = 0 THEN EMPTY ELSE strm[LastLine(strm, n, prop)].value

ExpectedNum(strm, n, prop) ==
    IF LastLine(strm, n, prop) = 0 THEN 0 ELSE strm[LastLine(strm, n, prop)].num

\* the stream with lines i and i+1 exchanged
Swapped(strm, i) ==
    [j \in DOMAIN strm |->
        IF j = i THEN strm[i + 1] ELSE IF j = i + 1 THEN strm[i] ELSE strm[j]]

\* the scan loop that produced parsed, run on another stream
Reparse(strm) ==
    IF parsed.op = "ListFilesystems" THEN ParseFilesystems(TextOf(strm), 1, NoList).l
    ELSE ParseSnapshots(TextOf(strm), 1, NoList).l

\* C8: the bulk parse of a stream of well-formed lines yields one record per
\* dataset name of the stream, keyed by and carrying that name, whose fields
\* are those the lines of that name set (guid, createtxg as a number, and for
\* a filesystem origin), zero where no line sets them and untouched by
\* unrecognised properties; exchanging lines of different datasets changes
\* nothing.
C8_BulkParse ==
    (parsed.op # "none" /\ WellFormed(stream))
    => /\ parsed.err = "nil"
       /\ DOMAIN parsed.l = {stream[i].name : i \in DOMAIN stream}
       /\ \A n \in DOMAIN parsed.l :
            /\ parsed.l[n].Name = n
            /\ parsed.l[n].GUID = ExpectedText(stream, n, P_guid)
            /\ parsed.l[n].CreateTxg = ExpectedNum(stream, n, P_createtxg)
            /\ parsed.op = "ListFilesystems"
                 => parsed.l[n].Origin = ExpectedText(stream, n, P_origin)
            /\ parsed.op = "ListSnapshots"
                 => DOMAIN parsed.l[n] = {"Name", "GUID", "CreateTxg"}
       /\ \A i \in 1..(Len(stream) - 1) :
            stream[i].name # stream[i + 1].name
                => Reparse(Swapped(stream, i)) = parsed.l

C8_Witness ==
    /\ parsed.op = "ListFilesystems" /\ parsed.err = "nil"
    /\ stream = <<Triple(D1, P_guid, <<"G", "1">>, 0), TxgTriple(D1, 42),
                  Triple(D2, P_guid, <<"G", "2">>, 0)>>
    /\ DOMAIN parsed.l = {D1, D2}
    /\ parsed.l[D1].GUID = <<"G", "1">> /\ parsed.l[D1].CreateTxg = 42
    /\ parsed.l[D2].GUID = <<"G", "2">> /\ parsed.l[D2].CreateTxg = 0

-----------------------------------------------------------------------------
(* SpecInit: init() of init.go.  For each tool in turn it reads the binary *)
(* file, builds the command with two pipes, starts it, and drains standard *)
(* output and then standard error through logPipe, each time blocking on   *)
(* the channel logPipe returns.  The subprocess writes lines into pipes of *)
(* bounded capacity, closes its ends and exits, at its own pace; while it   *)
(* waits in a write on a full pipe it does nothing else.                   *)

Tools == {"zfs", "zpool"}
Ends  == {"out", "err"}
Pipes == Tools \X Ends

InitInit ==
    /\ pc = "ReadFile"
    /\ check = "zfs"
    /\ present \in [Tools -> BOOLEAN]
    /\ child = [t \in Tools |-> "none"]
    /\ status = [t \in Tools |-> 0]
    /\ wopen = [p \in Pipes |-> FALSE]
    /\ pipe = [p \in Pipes |-> 0]
    /\ written = [p \in Pipes |-> 0]
    /\ logged = [p \in Pipes |-> 0]
    /\ reader = [p \in Pipes |-> "none"]
    /\ signalled = [t \in Tools |-> {}]
    /\ diag = 0
    /\ opsRun = FALSE
    /\ blockedOn = [t \in Tools |-> "none"]
    /\ IdlePool
    /\ IdleParse
    /\ IdleRace

Rest == UNCHANGED <<poolVars, parseVars, raceVars>>

\* os.ReadFile(path); on an error log.Printf and log.Fatal end the process
ReadFile ==
    /\ pc = "ReadFile"
    /\ IF present[check]
       THEN pc' = "Pipes" /\ diag' = diag
       ELSE pc' = "exited" /\ diag' = diag + 2
    /\ UNCHANGED <<check, present, child, status, wopen, pipe, written, logged,
                   reader, signalled, opsRun, blockedOn>>
    /\ Rest

\* exec.Command, cmd.StdoutPipe() and cmd.StderrPipe(); an error is fatal
MakePipes ==
    /\ pc = "Pipes"
    /\ \E ok \in BOOLEAN :
        IF ok THEN pc' = "Start" /\ diag' = diag
        ELSE pc' = "exited" /\ diag' = diag + 1
    /\ UNCHANGED <<check, present, child, status, wopen, pipe, written, logged,
                   reader, signalled, opsRun, blockedOn>>
    /\ Rest

\* cmd.Start(), its error dropped: the subprocess runs holding both write
\* ends, or it could not be started and Start has closed the pipes
Start ==
    /\ pc = "Start"
    /\ \E started \in BOOLEAN :
        /\ child' = [child EXCEPT ![check] = IF started THEN "running" ELSE "failed"]
        /\ wopen' = [p \in Pipes |-> IF p[1] = check THEN started ELSE wopen[p]]
    /\ pc' = "logPipe out"
    /\ UNCHANGED <<check, present, status, pipe, written, logged, reader,
                   signalled, diag, opsRun, blockedOn>>
    /\ Rest

\* the stream init() is at
Current == <<check, IF pc \in {"logPipe out", "recv out"} THEN "out" ELSE "err">>

\* logPipe(r, ...): make the channel, start the goroutine, return the channel
logPipe ==
    /\ pc \in {"logPipe out", "logPipe err"}
    /\ reader' = [reader EXCEPT ![Current] = "scanning"]
    /\ pc' = IF pc = "logPipe out" THEN "recv out" ELSE "recv err"
    /\ UNCHANGED <<check, present, child, status, wopen, pipe, written, logged,
                   signalled, diag, opsRun, blockedOn>>
    /\ Rest

\* the goroutine: in.Scan() returns a line, log.Printf prints it
ReaderScan ==
    \E p \in Pipes :
        /\ reader[p] = "scanning"
        /\ pipe[p] > 0
        /\ pipe' = [pipe EXCEPT ![p] = @ - 1]
        /\ logged' = [logged EXCEPT ![p] = @ + 1]
        /\ UNCHANGED <<pc, check, present, child, status, wopen, written, reader,
                       signalled, diag, opsRun, blockedOn>>
        /\ Rest

\* the goroutine: in.Scan() returns false at end of stream, done <- true waits
ReaderEOF ==
    \E p \in Pipes :
        /\ reader[p] = "scanning"
        /\ pipe[p] = 0 /\ ~wopen[p]
        /\ reader' = [reader EXCEPT ![p] = "sending"]
        /\ UNCHANGED <<pc, check, present, child, status, wopen, pipe, written,
                       logged, signalled, diag, opsRun, blockedOn>>
        /\ Rest

\* init(): <-done receives from the goroutine of the stream it waits on; after
\* standard error of zfs comes the zpool check, after that of zpool the return
Receive ==
    /\ pc \in {"recv out", "recv err"}
    /\ reader[Current] = "sending"
    /\ reader' = [reader EXCEPT ![Current] = "done"]
    /\ signalled' = [signalled EXCEPT ![check] = @ \cup {Current[2]}]
    /\ IF pc = "recv out" THEN pc' = "logPipe err" /\ check' = check
       ELSE IF check = "zfs" THEN pc' = "ReadFile" /\ check' = "zpool"
       ELSE pc' = "returned" /\ check' = check
    /\ UNCHANGED <<present, child, status, wopen, pipe, written, logged, diag, opsRun, blockedOn>>
    /\ Rest

\* the subprocess calls write with a line: the line goes into the pipe, or the
\* pipe is full and the subprocess waits in the call
ChildWrite ==
    \E p \in Pipes :
        /\ child[p[1]] = "running" /\ wopen[p]
        /\ blockedOn[p[1]] = "none"
        /\ written[p] < MaxWrites
        /\ IF pipe[p] < PipeCap
           THEN /\ pipe' = [pipe EXCEPT ![p] = @ + 1]
                /\ written' = [written EXCEPT ![p] = @ + 1]
                /\ UNCHANGED blockedOn
           ELSE /\ blockedOn' = [blockedOn EXCEPT ![p[1]] = p[2]]
                /\ UNCHANGED <<pipe, written>>
        /\ UNCHANGED <<pc, check, present, child, status, wopen, logged, reader,
                       signalled, diag, opsRun>>
        /\ Rest

\* a reader has made room in the pipe: the waiting write completes
ChildResume ==
    \E p \in Pipes :
        /\ child[p[1]] = "running"
        /\ blockedOn[p[1]] = p[2]
        /\ pipe[p] < PipeCap
        /\ pipe' = [pipe EXCEPT ![p] = @ + 1]
        /\ written' = [written EXCEPT ![p] = @ + 1]
        /\ blockedOn' = [blockedOn EXCEPT ![p[1]] = "none"]
        /\ UNCHANGED <<pc, check, present, child, status, wopen, logged, reader,
                       signalled, diag, opsRun>>
        /\ Rest

\* the subprocess closes one of its streams
ChildClose ==
    \E p \in Pipes :
        /\ child[p[1]] = "running" /\ wopen[p]
        /\ blockedOn[p[1]] = "none"
        /\ wopen' = [wopen EXCEPT ![p] = FALSE]
        /\ UNCHANGED <<pc, check, present, child, status, pipe, written, logged,
                       reader, signalled, diag, opsRun, blockedOn>>
        /\ Rest

\* the subprocess exits with a status; the kernel closes what it left open and
\* keeps the process entry until the parent waits for it
ChildExit ==
    \E t \in Tools, st \in {0, 1} :
        /\ child[t] = "running"
        /\ blockedOn[t] = "none"
        /\ child' = [child EXCEPT ![t] = "exited"]
        /\ status' = [status EXCEPT ![t] = st]
        /\ wopen' = [p \in Pipes |-> IF p[1] = t THEN FALSE ELSE wopen[p]]
        /\ UNCHANGED <<pc, check, present, pipe, written, logged, reader,
                       signalled, diag, opsRun, blockedOn>>
        /\ Rest

\* init() has returned: the program goes on to call New and the operations
CallOperation ==
    /\ pc = "returned"
    /\ ~opsRun
    /\ opsRun' = TRUE
    /\ UNCHANGED <<pc, check, present, child, status, wopen, pipe, written, logged,
                   reader, signalled, diag, blockedOn>>
    /\ Rest

NextInit ==
    \/ ReadFile
    \/ MakePipes
    \/ Start
    \/ logPipe
    \/ ReaderScan
    \/ ReaderEOF
    \/ Receive
    \/ ChildWrite
    \/ ChildResume
    \/ ChildClose
    \/ ChildExit
    \/ CallOperation

SpecInit == InitInit /\ [][NextInit]_vars

\* C9: when init() has returned, in each of the two checks the reader of
\* standard output and the reader of standard error ran to end of stream and
\* signalled, every line the subprocess wrote was logged, and the subprocess
\* has been reaped.
C9_DrainedAndReaped ==
    pc = "returned"
    => \A t \in Tools :
          /\ signalled[t] = Ends
          /\ \A e \in Ends : logged[<<t, e>>] = written[<<t, e>>] /\ ~wopen[<<t, e>>]
          /\ child[t] \in {"reaped", "failed"}

\* C10: an operation runs after init() only if both binaries were present and
\* the invocation of each was started and exited with success.
C10_OperationsOnlyAfterSuccess ==
    opsRun
    => \A t \in Tools :
          present[t] /\ child[t] \in {"exited", "reaped"} /\ status[t] = 0

\* init() waits for a done that no step of init(), of a reader or of a
\* subprocess can bring about
Stuck == pc \in {"recv out", "recv err"} /\ ~ENABLED NextInit

\* C12: the startup validation never deadlocks: whatever the subprocess of a
\* check writes to standard output and standard error before it closes them
\* and exits, with pipes of bounded capacity, init() waiting for a reader's
\* signal can always make progress, although the reader of standard error is
\* started only after the reader of standard output has signalled.
C12_InitNeverDeadlocks == ~Stuck

-----------------------------------------------------------------------------
(* SpecRace: two callers hold the handle of pool tank and each runs one    *)
(* CreateFilesystem or CreateSnapshot.  A call is two steps, one for each  *)
(* subprocess it waits for: the create, clone or snapshot command, which   *)
(* the external system runs atomically, and the get query that follows.    *)
(* Between the two steps of one caller the other caller may run.           *)

Callers == {1, 2}

Request(kind, name, origin) == [kind |-> kind, name |-> name, origin |-> origin]

RaceRequests ==
    { Request("CreateFilesystem", F2, EMPTY),
      Request("CreateFilesystem", F2, FS),
      Request("CreateFilesystem", FC, DASH),
      Request("CreateFilesystem", T2F, EMPTY),
      Request("CreateFilesystem", BGF, EMPTY),
      Request("CreateSnapshot", FR, EMPTY),
      Request("CreateSnapshot", F2S, EMPTY) }

Entered(req) ==
    [req |-> req, pc |-> "call", err |-> "nil", fs |-> ZeroFilesystem,
     snap |-> ZeroSnapshot, calls |-> <<>>, faulted |-> FALSE]

\* the record a caller passes to CreateFilesystem
Passed(req) == [ZeroFilesystem EXCEPT !.Name = req.name, !.Origin = req.origin]

InitRace ==
    /\ pools = {TANK, TANK2}
    /\ datasets = InitDatasets(pools)
    /\ txg = TxgInit
    /\ z = [Name |-> TANK]
    /\ ret = NoRet
    /\ callers \in [Callers -> {Entered(r) : r \in RaceRequests}]
    /\ IdleParse
    /\ IdleInit

\* the test CreateFilesystem and CreateSnapshot make of cmd.Output(): err != nil
OutputFailedNever(ok) == FALSE
OutputFailed(ok) == ~ok

\* CreateFilesystem up to the return of cmd.Output()
CreateFilesystemRun(c) ==
    /\ callers[c].pc = "call"
    /\ callers[c].req.kind = "CreateFilesystem"
    /\ LET fs == Passed(callers[c].req)
       IN  IF ~CreateFilesystemValid(z.Name, fs)
           THEN /\ callers' = [callers EXCEPT ![c].pc = "done",
                                              ![c].err = "cannot be created",
                                              ![c].fs = fs]
                /\ UNCHANGED <<datasets, txg>>
           ELSE \E cfault \in BOOLEAN :
                LET plain == IsPlainCreate(fs)
                    ok == IF plain THEN ZfsCreateOk(pools, datasets, fs.Name, cfault)
                          ELSE ZfsCloneOk(pools, datasets, fs.Origin, fs.Name, cfault)
                    call == Call(IF plain THEN "create" ELSE "clone", fs.Name, ok)
                IN  /\ datasets' =
                          IF ok THEN Extend(datasets, fs.Name,
                                            NewDataset("filesystem",
                                                       IF plain THEN DASH ELSE fs.Origin,
                                                       txg))
                          ELSE datasets
                    /\ txg' = IF ok THEN txg + 1 ELSE txg
                    /\ callers' =
                          IF OutputFailed(ok)
                          THEN [callers EXCEPT ![c].pc = "done",
                                               ![c].err = "unable to create",
                                               ![c].fs = fs,
                                               ![c].calls = <<call>>,
                                               ![c].faulted = cfault]
                          ELSE [callers EXCEPT ![c].pc = "confirm",
                                               ![c].calls = <<call>>,
                                               ![c].faulted = cfault]
    /\ UNCHANGED <<pools, z, ret, parseVars, initVars>>

\* CreateFilesystem from the call of GetFilesystem to its return
CreateFilesystemReturn(c) ==
    /\ callers[c].pc = "confirm"
    /\ callers[c].req.kind = "CreateFilesystem"
    /\ \E gfault \in BOOLEAN :
        LET r == CreateFilesystemConfirm(z.Name, datasets, txg, Passed(callers[c].req),
                                         callers[c].calls[1], gfault)
        IN  callers' = [callers EXCEPT ![c].pc = "done", ![c].err = r.err,
                                       ![c].fs = r.fs, ![c].calls = r.calls,
                                       ![c].faulted = @ \/ gfault]
    /\ UNCHANGED <<poolVars, parseVars, initVars>>

\* CreateSnapshot up to the return of cmd.Output()
CreateSnapshotRun(c) ==
    /\ callers[c].pc = "call"
    /\ callers[c].req.kind = "CreateSnapshot"
    /\ LET name == callers[c].req.name
       IN  IF ~CreateSnapshotValid(z.Name, name)
           THEN /\ callers' = [callers EXCEPT ![c].pc = "done",
                                              ![c].err = "cannot be created"]
                /\ UNCHANGED <<datasets, txg>>
           ELSE \E cfault \in BOOLEAN :
                LET ok == ZfsSnapshotOk(datasets, name, cfault)
                    call == Call("snapshot", name, ok)
                IN  /\ datasets' =
                          IF ok THEN Extend(datasets, name, NewDataset("snapshot", DASH, txg))
                          ELSE datasets
                    /\ txg' = IF ok THEN txg + 1 ELSE txg
                    /\ callers' =
                          IF OutputFailed(ok)
                          THEN [callers EXCEPT ![c].pc = "done",
                                               ![c].err = "unable to create",
                                               ![c].calls = <<call>>,
                                               ![c].faulted = cfault]
                          ELSE [callers EXCEPT ![c].pc = "confirm",
                                               ![c].calls = <<call>>,
                                               ![c].faulted = cfault]
    /\ UNCHANGED <<pools, z, ret, parseVars, initVars>>

\* CreateSnapshot from the call of GetSnapshot to its return
CreateSnapshotReturn(c) ==
    /\ callers[c].pc = "confirm"
    /\ callers[c].req.kind = "CreateSnapshot"
    /\ \E gfault \in BOOLEAN :
        LET n == GetSnapshot(z.Name, datasets, callers[c].req.name, gfault)
        IN  callers' = [callers EXCEPT ![c].pc = "done",
                                       ![c].err = IF n.err # "nil" THEN "after creation"
                                                  ELSE "nil",
                                       ![c].snap = n.ds,
                                       ![c].calls = @ \o n.calls,
                                       ![c].faulted = @ \/ gfault]
    /\ UNCHANGED <<poolVars, parseVars, initVars>>

NextRace ==
    \E c \in Callers :
        \/ CreateFilesystemRun(c)
        \/ CreateFilesystemReturn(c)
        \/ CreateSnapshotRun(c)
        \/ CreateSnapshotReturn(c)

SpecRace == InitRace /\ [][NextRace]_vars

\* both callers ask for the same operation on the same name, which passes the
\* short circuit and does not exist when they start
SameTarget ==
    /\ callers[1].req.kind = callers[2].req.kind
    /\ callers[1].req.name = callers[2].req.name
    /\ IF callers[1].req.kind = "CreateFilesystem"
       THEN CreateFilesystemValid(z.Name, Passed(callers[1].req))
       ELSE CreateSnapshotValid(z.Name, callers[1].req.name)
    /\ callers[1].req.name \notin DOMAIN InitDatasets(pools)

AllDone == \A c \in Callers : callers[c].pc = "done"

Winners == {c \in Callers : callers[c].pc = "done" /\ callers[c].err = "nil"}

\* the callers whose create, clone or snapshot subprocess succeeded
Creators == {c \in Callers : callers[c].calls # <<>> /\ callers[c].calls[1].ok}

SubprocessFailures == {"unable to create", "after creation"}

\* C11: when two callers run CreateFilesystem (or CreateSnapshot) at the same
\* time for the same valid name that does not exist yet, in every interleaving
\* at most one returns without error and the other returns a
\* subprocess-failure error; no caller runs a command twice, the external
\* system creates the dataset once, and with no other failure of the tool
\* exactly one caller succeeds.
C11_AtMostOneCreates ==
    SameTarget
    => /\ Cardinality(Winners) <= 1
       /\ Cardinality(Creators) <= 1
       /\ txg = TxgInit + Cardinality(Creators)
       /\ Winners \subseteq Creators
       /\ \A c \in Callers :
            /\ Len(callers[c].calls) <= 2
            /\ Len(callers[c].calls) = 2 => callers[c].calls[2].cmd = "get"
            /\ (callers[c].pc = "done" /\ callers[c].err # "nil")
                 => callers[c].err \in SubprocessFailures
       /\ AllDone
            => /\ \E c \in Callers : callers[c].err \in SubprocessFailures
               /\ Creators # {}
                    => /\ callers[1].req.name \in DOMAIN datasets
                       /\ datasets[callers[1].req.name].createtxg = TxgInit
               /\ ((\A c \in Callers : ~callers[c].faulted)
                   /\ callers[1].req.name \in DOMAIN datasets)
                    => Cardinality(Winners) = 1

C11_Witness ==
    /\ SameTarget /\ AllDone
    /\ callers[1].req.name = F2 /\ callers[1].req.kind = "CreateFilesystem"
    /\ callers[2].err = "nil" /\ callers[2].fs.Name = F2
    /\ callers[1].err = "unable to create" /\ ~callers[1].faulted
    /\ F2 \in DOMAIN datasets

====
